---------------------------- MODULE Spec2Model ----------------------------
(***************************************************************************)
(* A model of the DawlessGPT v6 rendering core: the sequencer               *)
(* (sequencer.py), the synthesiser (synth_engine.py, dsp_core.py), the mix  *)
(* bus (fx_core.py), the WAV encoder (io_audio.py), the MIDI encoder        *)
(* (io_midi.py), the orchestrator (runner.py) and the two CLI commands      *)
(* that drive them (cli.py).                                                *)
(*                                                                          *)
(* Number representation.  Python floats are modelled as exact fixed-point  *)
(* numbers; rounding error of binary floating point is not modelled.        *)
(*   - times and durations are whole milliseconds;                          *)
(*   - audio samples, velocities and linear gains are in thousandths        *)
(*     (1.0 is 1000);                                                       *)
(*   - levels in dB are whole decibels.                                     *)
(* Divisions that the code performs on floats are truncated toward zero at  *)
(* that resolution (QDiv).                                                  *)
(***************************************************************************)
EXTENDS Integers, Sequences, FiniteSets, TLC

(***************************************************************************)
(* Bounds of the model.                                                     *)
(***************************************************************************)
\* plans have 1..MaxBars bars
MaxBars == 1
\* plans declare 0..MaxTracks tracks
MaxTracks == 2
\* a plan's own "events" list has at most MaxEvents entries
MaxEvents == 2
\* config["sample_rate"], in Hz
SampleRate == 8
\* number of ambient states of the process-wide random generator
RngMod == 4
\* random.random() returns one of RandLevels equidistant values in [0, 1)
RandLevels == 4
\* cap on the iterations of a _varlen loop that never ends
MaxSpin == 3
\* the values handed to the codecs directly are 0..MaxSmall and the edges
MaxSmall == 130
\* an envelope is sampled at the times 0..MaxEnvTime
MaxEnvTime == 4
\* the voice limit of the quality preset in force (the presets are part of
\* the configuration, which the sources do not hold)
VoiceLimit == 2

(***************************************************************************)
(* Program constants.                                                       *)
(***************************************************************************)
\* io_audio.py: 0x7FFFFF
FullScale == 8388607
\* io_midi.py: ticks_per_beat
TicksPerBeat == 480
\* sequencer.py: total_steps = length_bars * 16
StepsPerBar == 16
\* completion.py: default bpm
DefaultBpm == 120
\* fx_core.py: config.get("target_peak_db", -1)
DefaultTargetDb == -1
\* completion.py: default length_bars
DefaultLengthBars == 32

(***************************************************************************)
(* Arithmetic helpers.                                                      *)
(***************************************************************************)
\* float('inf'), float('-inf') and float('nan'): three values outside the
\* range of every finite quantity of the model
PosInf == 1000000000

NegInf == -1000000000

NaN == 2000000000

Abs(x) == IF x < 0 THEN -x ELSE x

Sign(x) == IF x < 0 THEN -1 ELSE IF x > 0 THEN 1 ELSE 0

\* float division or int(): the quotient truncated toward zero
QDiv(a, b) == Sign(a) * Sign(b) * (Abs(a) \div Abs(b))

Min(a, b) == IF a < b THEN a ELSE b

Max(a, b) == IF a > b THEN a ELSE b

RECURSIVE SeqMax(_)
\* max(f(x) for x in s) over a non-empty sequence of numbers
SeqMax(s) ==
  IF Len(s) = 1 THEN s[1] ELSE Max(s[1], SeqMax(Tail(s)))

RECURSIVE Concat(_)
\* the concatenation of a sequence of sequences
Concat(ss) ==
  IF ss = <<>> THEN <<>> ELSE Head(ss) \o Concat(Tail(ss))

(***************************************************************************)
(* sequencer.py                                                             *)
(***************************************************************************)
\* seconds_per_beat = 60.0 / bpm, in milliseconds
SecondsPerBeat(bpm) == 60000 \div bpm

\* time = (i / 4.0) * seconds_per_beat, in milliseconds
StepTime(i, bpm) == (i * SecondsPerBeat(bpm)) \div 4

\* drums.get(d) and i < len(drums[d]) and drums[d][i] == 1
StepActive(pat, i) == pat # <<>> /\ i < Len(pat) /\ pat[i + 1] = 1

\* StepEvents with the three tests chained by elif: one event a step at most
StepEventsElif(drums, i, bpm) ==
  LET time == StepTime(i, bpm)
      spb == SecondsPerBeat(bpm)
  IN  IF StepActive(drums.kick, i)
        THEN <<[time |-> time, note |-> 36, velocity |-> 1000, duration |-> spb]>>
      ELSE IF StepActive(drums.snare, i)
        THEN <<[time |-> time, note |-> 38, velocity |-> 800, duration |-> spb]>>
      ELSE IF StepActive(drums.hats, i)
        THEN <<[time |-> time, note |-> 42, velocity |-> 600, duration |-> spb \div 2]>>
      ELSE <<>>

\* the events one iteration of the loop over the steps appends
StepEvents(drums, i, bpm) ==
  LET time == StepTime(i, bpm)
      spb == SecondsPerBeat(bpm)
  IN  (IF StepActive(drums.kick, i)
         THEN <<[time |-> time, note |-> 36, velocity |-> 1000, duration |-> spb]>>
         ELSE <<>>)
      \o
      (IF StepActive(drums.snare, i)
         THEN <<[time |-> time, note |-> 38, velocity |-> 800, duration |-> spb]>>
         ELSE <<>>)
      \o
      (IF StepActive(drums.hats, i)
         THEN <<[time |-> time, note |-> 42, velocity |-> 600, duration |-> spb \div 2]>>
         ELSE <<>>)

\* ScheduleEvents with the loops swapped: drum by drum, each over all steps
ScheduleEventsByDrum(p) ==
  LET total_steps == p.length_bars * StepsPerBar
      none == [kick |-> <<>>, snare |-> <<>>, hats |-> <<>>]
      Only(d) == [none EXCEPT ![d] = p.drums[d]]
      Of(d) == Concat([k \in 1..total_steps |-> StepEvents(Only(d), k - 1, p.bpm)])
  IN  Of("kick") \o Of("snare") \o Of("hats")

\* schedule_events(plan): the loop over range(total_steps)
ScheduleEvents(p) ==
  LET total_steps == p.length_bars * StepsPerBar
  IN  Concat([k \in 1..total_steps |-> StepEvents(p.drums, k - 1, p.bpm)])

(***************************************************************************)
(* completion.py, utils.py, harmony.py: the plan before it is rendered.     *)
(* A plan is a record; `keys` is the set of keys its dictionary holds, and  *)
(* a field whose key is absent holds a filler that nothing may read.        *)
(***************************************************************************)
\* the four-on-the-floor pattern lists complete_plan builds
DefaultDrums(length_bars) ==
  LET length == length_bars * StepsPerBar
  IN  [kick  |-> [k \in 1..length |-> IF (k - 1) % 16 = 0 THEN 1 ELSE 0],
       snare |-> [k \in 1..length |-> IF (k - 1) % 16 = 8 THEN 1 ELSE 0],
       hats  |-> [k \in 1..length |-> IF (k - 1) % 4 = 0 THEN 1 ELSE 0]]

\* the keys complete_plan fills when they are missing
CompletedKeys ==
  {"bpm", "time_signature", "length_bars", "quality", "tracks", "root_midi",
   "scale", "mode", "progression", "arp_rules", "drums"}

\* complete_plan(plan, schema, config): the completed plan
CompletePlan(p) ==
  [p EXCEPT
     !.keys = p.keys \cup CompletedKeys,
     !.bpm = IF "bpm" \in p.keys THEN p.bpm ELSE DefaultBpm,
     !.time_signature = IF "time_signature" \in p.keys
                          THEN p.time_signature ELSE <<4, 4>>,
     !.length_bars = IF "length_bars" \in p.keys THEN p.length_bars
                                                  ELSE DefaultLengthBars,
     !.tracks = IF "tracks" \notin p.keys \/ p.tracks = <<>>
                  THEN <<[instrument_type |-> "pad", events |-> <<>>,
                          arp_rules |-> FALSE]>>
                  ELSE p.tracks,
     !.drums = IF "drums" \in p.keys THEN p.drums
               ELSE DefaultDrums(IF "length_bars" \in p.keys
                                   THEN p.length_bars ELSE DefaultLengthBars)]

\* schema["required"], as the interface section of the specification lists it
SchemaRequired ==
  {"bpm", "time_signature", "length_bars", "tracks", "quality", "root_midi",
   "scale", "progression", "drums"}

\* validate_plan(plan, schema): the required keys the plan lacks
MissingKeys(p) == SchemaRequired \ p.keys

\* generate_progression and generate_arp: what they add to the plan
GenerateHarmony(p) ==
  [p EXCEPT
     !.keys = p.keys \cup {"progression_semitones"},
     !.tracks = [k \in 1..Len(p.tracks) |->
                   IF p.tracks[k].events = <<>>
                     THEN [p.tracks[k] EXCEPT !.arp_rules = TRUE]
                     ELSE p.tracks[k]]]

(***************************************************************************)
(* dsp_core.py, synth_engine.py                                             *)
(***************************************************************************)
\* sin over one period, in eighths of a period, in thousandths
SinTable == <<0, 707, 1000, 707, 0, -707, -1000, -707>>

\* sine_wave(freq, t) at t = i / sample_rate, the phase cut to an eighth
SineWave(freq, i, sample_rate) ==
  SinTable[(((8 * freq * i) \div sample_rate) % 8) + 1]

\* midi_to_freq(note), in whole Hz, for the notes the model plays
MidiToFreq(note) ==
  CASE note = 36 -> 65
    [] note = 38 -> 73
    [] note = 42 -> 92
    [] note = 60 -> 262
    [] OTHER -> 440

\* int(seconds * sample_rate), seconds given in milliseconds
ToSamples(ms, sample_rate) == (ms * sample_rate) \div 1000

\* the same loop without its test `if end_time > total_seconds`: the end of
\* the event that comes last in the list
TotalSecondsLast(evs, total) ==
  IF evs = <<>> THEN total
  ELSE evs[Len(evs)].time + evs[Len(evs)].duration

RECURSIVE TotalSeconds(_, _)
\* the loop that finds the end of the last event, in milliseconds
TotalSeconds(evs, total) ==
  IF evs = <<>> THEN total
  ELSE LET end_time == Head(evs).time + Head(evs).duration
       IN  TotalSeconds(Tail(evs), IF end_time > total THEN end_time ELSE total)

\* num_samples = int(total_seconds * sample_rate) + 1
NumSamples(evs, sample_rate) == ToSamples(TotalSeconds(evs, 0), sample_rate) + 1

\* the inner loop over range(duration_samples) for one event
RenderEvent(buffer, event, sample_rate) ==
  LET freq == MidiToFreq(event.note)
      start_sample == ToSamples(event.time, sample_rate)
      duration_samples == ToSamples(event.duration, sample_rate)
  IN  [j \in 1..Len(buffer) |->
         LET i == (j - 1) - start_sample
         IN  IF 0 <= i /\ i < duration_samples
               THEN buffer[j] + SineWave(freq, i, sample_rate)
               ELSE buffer[j]]

RECURSIVE RenderEvents(_, _, _)
\* the loop over the events for one track
RenderEvents(buffer, evs, sample_rate) ==
  IF evs = <<>> THEN buffer
  ELSE RenderEvents(RenderEvent(buffer, Head(evs), sample_rate), Tail(evs),
                    sample_rate)

\* adsr_envelope(attack, decay, sustain, release, t, gate), in thousandths
AdsrEnvelope(attack, decay, sustain, release, t, gate) ==
  IF gate THEN 1000 ELSE 0

\* max(abs(x) for x in buffer)
Peak(buffer) == SeqMax([j \in 1..Len(buffer) |-> Abs(buffer[j])])

\* PeakOrOne without the "or 1.0"
PeakUnguarded(buffer) == Peak(buffer)

\* max(abs(x) for x in buffer) or 1.0
PeakOrOne(buffer) == IF Peak(buffer) = 0 THEN 1000 ELSE Peak(buffer)

\* the events render_tracks plays into the buffer of track k
TrackEvents(k, evs) == evs

\* one track of render_tracks: the buffer, or the error the division raises
RenderTrack(k, evs, sample_rate) ==
  LET buffer == RenderEvents([j \in 1..NumSamples(evs, sample_rate) |-> 0],
                             TrackEvents(k, evs), sample_rate)
      max_amp == PeakOrOne(buffer)
  IN  IF max_amp = 0 THEN [error |-> "ZeroDivisionError", buffer |-> <<>>]
      ELSE [error |-> "none",
            buffer |-> [j \in 1..Len(buffer) |-> QDiv(buffer[j] * 1000, max_amp)]]

\* RenderTracks with the return inside the loop over the tracks: it hands
\* back the list when the first track is done
RenderTracksFirstOnly(p, evs, cfg) ==
  LET bufs == [k \in 1..Min(1, Len(p.tracks)) |->
                 RenderTrack(k, evs, cfg.sample_rate)]
  IN  IF \E k \in 1..Len(bufs) : bufs[k].error # "none"
        THEN [error |-> "ZeroDivisionError", buffers |-> <<>>]
        ELSE [error |-> "none", buffers |-> [k \in 1..Len(bufs) |-> bufs[k].buffer]]

\* render_tracks(plan, events, config)
RenderTracks(p, evs, cfg) ==
  LET bufs == [k \in 1..Len(p.tracks) |-> RenderTrack(k, evs, cfg.sample_rate)]
  IN  IF \E k \in 1..Len(bufs) : bufs[k].error # "none"
        THEN [error |-> "ZeroDivisionError", buffers |-> <<>>]
        ELSE [error |-> "none", buffers |-> [k \in 1..Len(bufs) |-> bufs[k].buffer]]

(***************************************************************************)
(* fx_core.py                                                               *)
(***************************************************************************)
\* 10 ** (db / 20.0), in thousandths; 10 ** inf is inf
DbToLinear(db) ==
  CASE db = PosInf -> PosInf
    [] db = 1 -> 1122
    [] db = 0 -> 1000
    [] db = -1 -> 891
    [] db = -2 -> 794
    [] db = -3 -> 708
    [] OTHER -> 631

\* the sample-by-sample sum of the track buffers, in list order
MixSum(track_buffers) ==
  LET mixed_length == SeqMax([k \in 1..Len(track_buffers) |-> Len(track_buffers[k])])
      RECURSIVE Sum(_, _)
      Sum(k, j) == IF k > Len(track_buffers) THEN 0
                   ELSE (IF j <= Len(track_buffers[k]) THEN track_buffers[k][j] ELSE 0)
                        + Sum(k + 1, j)
  IN  [j \in 1..mixed_length |-> Sum(1, j)]

\* target = 10 ** (config.get("target_peak_db", -1) / 20.0)
TargetPeak(cfg) ==
  DbToLinear(IF "target_peak_db" \in cfg.keys THEN cfg.target_peak_db
                                               ELSE DefaultTargetDb)

\* x * scale with scale = target / max_amp: an infinite target makes the
\* scale infinite, and 0.0 * inf is nan
ScaleSample(x, target, max_amp) ==
  IF target = PosInf
    THEN (IF x = 0 THEN NaN ELSE IF x > 0 THEN PosInf ELSE NegInf)
    ELSE QDiv(x * target, max_amp)

\* apply_fx(track_buffers, plan, config)
ApplyFx(track_buffers, p, cfg) ==
  IF track_buffers = <<>> THEN [error |-> "none", mixed |-> <<>>]
  ELSE LET mixed == MixSum(track_buffers)
           max_amp == PeakOrOne(mixed)
           target == TargetPeak(cfg)
       IN  IF max_amp = 0 THEN [error |-> "ZeroDivisionError", mixed |-> <<>>]
           ELSE [error |-> "none",
                 mixed |-> [j \in 1..Len(mixed) |->
                              ScaleSample(mixed[j], target, max_amp)]]

(***************************************************************************)
(* io_audio.py.  A value handed to float_to_int24 is a record: it stands    *)
(* for milli / 1000 + dith / (RandLevels * 2^24), which is exact for a      *)
(* sample in thousandths plus one dither draw.                              *)
(***************************************************************************)
\* the value random.random() returns in generator state s, in 1/RandLevels
RandomValue(s) == (s * RandLevels) \div RngMod

\* the generator state after one random.random()
NextRng(s) == (5 * s + 3) % RngMod

\* _tpdf_dither(): random.random() - random.random(), in 1/RandLevels
TpdfDither(s) == RandomValue(s) - RandomValue(NextRng(s))

\* val > 1.0
AboveOne(val) == val.milli > 1000 \/ (val.milli = 1000 /\ val.dith > 0)

\* val < -1.0
BelowMinusOne(val) == val.milli < -1000 \/ (val.milli = -1000 /\ val.dith < 0)

\* Clamp left out: the sample goes to the scaling as it is
ClampNone(val) == val

\* clamped = max(-1.0, min(1.0, sample)); min(1.0, nan) is 1.0, since
\* nan < 1.0 is false and min keeps its first argument
Clamp(val) ==
  IF val.milli = NaN THEN [milli |-> 1000, dith |-> 0]
  ELSE IF AboveOne(val) THEN [milli |-> 1000, dith |-> 0]
  ELSE IF BelowMinusOne(val) THEN [milli |-> -1000, dith |-> 0]
  ELSE val

\* int(x * 0x7FFFFF) for x >= 0 given as am / 1000 + ak / (RandLevels * 2^24):
\* x * 0x7FFFFF = whole + f / 1000 + ak / (2 * RandLevels) - a sliver of ak
ScaleMagnitude(am, ak) ==
  LET whole == am * (FullScale \div 1000) + ((am * (FullScale % 1000)) \div 1000)
      f == (am * (FullScale % 1000)) % 1000
      h == (2 * RandLevels * f) + (1000 * ak)
      q == h \div (2000 * RandLevels)
      r == h % (2000 * RandLevels)
      floor == whole + q - (IF r = 0 /\ ak > 0 THEN 1 ELSE 0)
  IN  IF floor < 0 THEN 0 ELSE floor

\* int_sample = int(clamped * 0x7FFFFF): truncation toward zero
ScaleToInt(val) ==
  LET flip == val.milli < 0 \/ (val.milli = 0 /\ val.dith < 0)
  IN  IF flip THEN -ScaleMagnitude(-val.milli, -val.dith)
      ELSE ScaleMagnitude(val.milli, val.dith)

\* struct.pack('<i', int_sample)[0:3]
Pack24(n) ==
  LET u == n % 16777216
  IN  <<u % 256, (u \div 256) % 256, (u \div 65536) % 256>>

\* float_to_int24(sample)
FloatToInt24(val) == Pack24(ScaleToInt(Clamp(val)))

RECURSIVE WavFrames(_, _, _)
\* the loop of write_wav over the samples: the frames and the generator
\* state it leaves
WavFrames(samples, dither, s) ==
  IF samples = <<>> THEN [frames |-> <<>>, rng |-> s]
  ELSE LET val == [milli |-> Head(samples),
                   dith |-> IF dither THEN TpdfDither(s) ELSE 0]
           rest == WavFrames(Tail(samples), dither,
                             IF dither THEN NextRng(NextRng(s)) ELSE s)
       IN  [frames |-> FloatToInt24(val) \o rest.frames, rng |-> rest.rng]

\* write_wav(samples, sample_rate, path, dither): the file it leaves
WriteWav(samples, sample_rate, dither, s) ==
  [nchannels |-> 1, sampwidth |-> 3, framerate |-> sample_rate,
   frames |-> WavFrames(samples, dither, s).frames]

(***************************************************************************)
(* analyze.py.  A decoded sample is int_sample / 0x7FFFFF; the model keeps  *)
(* the numerator int_sample.                                                *)
(***************************************************************************)
\* DecodeInt24 with the pad byte always 0x00: no sign extension
DecodeInt24NoSign(b) == b[1] + (256 * b[2]) + (65536 * b[3])

\* int.from_bytes(raw[i:i+3] + (b'\x00' if raw[i+2] < 0x80 else b'\xff'),
\* byteorder='little', signed=True): the pad byte 0xff makes the 32-bit
\* value negative, which takes 2^24 off the 24-bit magnitude
DecodeInt24(b) ==
  LET low == b[1] + (256 * b[2]) + (65536 * b[3])
  IN  IF b[3] < 128 THEN low ELSE low - 16777216

\* the loop of analyze_audio over the raw frames, three bytes at a time
ReadFrames(raw) ==
  [j \in 1..(Len(raw) \div 3) |-> DecodeInt24(SubSeq(raw, (3 * j) - 2, 3 * j))]

\* peak = max(abs(x) for x in samples) if samples else 0.0
AnalyzePeak(samples) ==
  IF samples = <<>> THEN 0
  ELSE SeqMax([j \in 1..Len(samples) |-> Abs(samples[j])])

(***************************************************************************)
(* io_midi.py                                                               *)
(***************************************************************************)
RECURSIVE VarlenLoopNoFlag(_, _)
\* VarlenLoop without the "| 0x80" on the leading bytes
VarlenLoopNoFlag(value, result) ==
  IF value = 0 THEN result
  ELSE VarlenLoopNoFlag(value \div 128, <<value % 128>> \o result)

RECURSIVE VarlenLoop(_, _)
\* the while loop of _varlen; it ends only when value reaches 0
VarlenLoop(value, result) ==
  IF value = 0 THEN result
  ELSE VarlenLoop(value \div 128, <<(value % 128) + 128>> \o result)

\* _varlen(value), for the values on which its loop ends
Varlen(value) == VarlenLoop(value \div 128, <<value % 128>>)

\* _write_meta_event(delta, meta_type, data)
WriteMetaEvent(delta, meta_type, data) ==
  Varlen(delta) \o <<255, meta_type>> \o Varlen(Len(data)) \o data

\* _note_on(delta, channel, note, velocity)
NoteOn(delta, channel, note, velocity) ==
  Varlen(delta) \o <<144 + (channel % 16), note % 128, velocity % 128>>

\* _note_off(delta, channel, note, velocity)
NoteOff(delta, channel, note, velocity) ==
  Varlen(delta) \o <<128 + (channel % 16), note % 128, velocity % 128>>

\* sec_to_ticks(sec) = int(sec / seconds_per_beat * ticks_per_beat)
SecToTicks(ms, bpm) == QDiv(ms * TicksPerBeat, SecondsPerBeat(bpm))

RECURSIVE InsertByTime(_, _)
\* e put into the time-sorted list s after every event that is not later
InsertByTime(s, e) ==
  IF s = <<>> THEN <<e>>
  ELSE IF Head(s).time <= e.time THEN <<Head(s)>> \o InsertByTime(Tail(s), e)
  ELSE <<e>> \o s

RECURSIVE SortedByTime(_)
\* sorted(events, key=lambda e: e["time"]): a stable sort
SortedByTime(evs) ==
  IF evs = <<>> THEN <<>>
  ELSE InsertByTime(SortedByTime(SubSeq(evs, 1, Len(evs) - 1)), evs[Len(evs)])

\* struct.pack('>I', n)
PackU32(n) ==
  <<(n \div 16777216) % 256, (n \div 65536) % 256, (n \div 256) % 256, n % 256>>

\* struct.pack('>H', n)
PackU16(n) == <<(n \div 256) % 256, n % 256>>

RECURSIVE Log2Int(_)
\* int(math.log2(d)) for d >= 1
Log2Int(d) == IF d < 2 THEN 0 ELSE 1 + Log2Int(d \div 2)

\* TrackPrologue with the two meta events written in the other order
TrackPrologueSwapped(p) ==
  LET bpm == IF "bpm" \in p.keys THEN p.bpm ELSE DefaultBpm
      ts == IF "time_signature" \in p.keys THEN p.time_signature ELSE <<4, 4>>
      mpqn == 60000000 \div bpm
  IN  WriteMetaEvent(0, 88, <<ts[1], Log2Int(ts[2]), 24, 8>>)
      \o WriteMetaEvent(0, 81, Tail(PackU32(mpqn)))

\* the tempo and time-signature meta events that open the track
TrackPrologue(p) ==
  LET bpm == IF "bpm" \in p.keys THEN p.bpm ELSE DefaultBpm
      ts == IF "time_signature" \in p.keys THEN p.time_signature ELSE <<4, 4>>
      mpqn == 60000000 \div bpm
  IN  WriteMetaEvent(0, 81, Tail(PackU32(mpqn)))
      \o WriteMetaEvent(0, 88, <<ts[1], Log2Int(ts[2]), 24, 8>>)

\* MidiFileBytes with the eight bytes of the chunk header counted in the
\* length field
MidiFileBytesLongLen(track_data) ==
  <<77, 84, 104, 100>> \o PackU32(6) \o PackU16(1) \o PackU16(1)
  \o PackU16(TicksPerBeat)
  \o <<77, 84, 114, 107>> \o PackU32(Len(track_data) + 8) \o track_data

\* the bytes export_midi writes to the file
MidiFileBytes(track_data) ==
  <<77, 84, 104, 100>> \o PackU32(6) \o PackU16(1) \o PackU16(1)
  \o PackU16(TicksPerBeat)
  \o <<77, 84, 114, 107>> \o PackU32(Len(track_data)) \o track_data

(***************************************************************************)
(* The state.                                                               *)
(***************************************************************************)
VARIABLES
  plan_file,      \* the plan JSON on disk that every command is given
  config_file,    \* config.yaml on disk
  cmd,            \* the CLI command the process runs, "none" between processes
  pc,             \* where the command stands
  error,          \* the exception that ended the command, or "none"
  plan,           \* the plan dictionary in memory
  config,         \* the loaded configuration
  rng,            \* the state of the process-wide random generator
  events,         \* run: the list schedule_events returned
  track_buffers,  \* run: the list render_tracks returned
  mixed,          \* run: the list apply_fx returned
  wav_file,       \* the file at /mnt/data/render_<seed>.wav, NoFile at first
  events_sorted,  \* export_midi: events_sorted
  track_data,     \* export_midi: track_data
  last_tick,      \* export_midi: last_tick
  idx,            \* export_midi: the index of the next event of the loop
  midi_log,       \* export_midi: the note messages asked for so far
  spin,           \* export_midi: value and result of a _varlen loop that runs on
  midi_file,      \* the bytes of the MIDI output file, <<>> while it is absent
  call            \* a direct call of a codec function and what it returned

vars ==
  <<plan_file, config_file, cmd, pc, error, plan, config, rng, events,
    track_buffers, mixed, wav_file, events_sorted, track_data, last_tick, idx,
    midi_log, spin, midi_file, call>>

runVars == <<events, track_buffers, mixed>>

midiVars == <<events_sorted, track_data, last_tick, idx, midi_log, spin>>

diskVars == <<plan_file, config_file>>

(***************************************************************************)
(* The inputs the model explores.                                           *)
(***************************************************************************)
\* a pattern list of the given length with hits at the given steps
Pattern(len, hits) == [k \in 1..len |-> IF (k - 1) \in hits THEN 1 ELSE 0]

KickPatterns(bars) ==
  {<<>>, Pattern(bars * StepsPerBar, {0}),
   Pattern((bars * StepsPerBar) \div 2, {0, 2}),
   Pattern(bars * StepsPerBar + 1, {0, bars * StepsPerBar})}

SnarePatterns(bars) == {<<>>, Pattern(bars * StepsPerBar, {0, 8})}

HatsPatterns(bars) == {<<>>, Pattern(bars * StepsPerBar, {2})}

NoDrums == [kick |-> <<>>, snare |-> <<>>, hats |-> <<>>]

\* the filler of a plan that asks for no Euclidean rhythm
NoEuclid == [pulses |-> 0, steps |-> 0, rotation |-> 0]

\* the tracks a plan declares
Tracks(n) ==
  [k \in 1..n |-> [instrument_type |-> "pad", events |-> <<>>,
                   arp_rules |-> FALSE]]

\* the keys every explored plan holds
BaseKeys == {"length_bars", "time_signature", "seed"}

\* plans without an event list of their own
RenderPlans ==
  {[keys |-> BaseKeys \cup ks \cup {"tracks"},
    bpm |-> IF "bpm" \in ks THEN 100 ELSE 0,
    time_signature |-> <<4, 4>>, length_bars |-> bars, seed |-> 7,
    drums |-> IF "drums" \in ks THEN d ELSE NoDrums,
    tracks |-> Tracks(n), events |-> <<>>, euclid |-> NoEuclid] :
     ks \in SUBSET {"bpm", "drums"}, bars \in 1..MaxBars, n \in 0..MaxTracks,
     d \in [kick : KickPatterns(MaxBars), snare : SnarePatterns(MaxBars),
            hats : HatsPatterns(MaxBars)]}

\* the events a plan's own list is made of
EventChoices ==
  {[time |-> 0, note |-> 36, velocity |-> 1000, duration |-> 500],
   [time |-> 750, note |-> 38, velocity |-> 800, duration |-> 250],
   [time |-> 250, note |-> 42, velocity |-> 600, duration |-> 250]}

EventLists == UNION {[1..n -> EventChoices] : n \in 0..MaxEvents}

\* plans that carry an event list of their own
EventPlans ==
  {[keys |-> BaseKeys \cup ks \cup {"drums", "events"},
    bpm |-> IF "bpm" \in ks THEN 100 ELSE 0,
    time_signature |-> <<4, 4>>, length_bars |-> 1, seed |-> 7,
    drums |-> [NoDrums EXCEPT !.kick = Pattern(StepsPerBar, {0})],
    tracks |-> <<>>, events |-> evs, euclid |-> NoEuclid] :
     ks \in SUBSET {"bpm"}, evs \in EventLists}

\* plans that name a time signature whose denominator is no power of two,
\* or a track whose instrument type no synthesiser knows
InvalidPlans ==
  {[keys |-> BaseKeys \cup {"tracks", "drums"}, bpm |-> 0,
    time_signature |-> ts, length_bars |-> 1, seed |-> 7,
    drums |-> [NoDrums EXCEPT !.kick = Pattern(StepsPerBar, {0})],
    tracks |-> <<[instrument_type |-> it, events |-> <<>>, arp_rules |-> FALSE]>>,
    events |-> <<>>, euclid |-> NoEuclid] :
     ts \in {<<4, 4>>, <<4, 3>>}, it \in {"pad", "kazoo"}}
  \ RenderPlans

\* plans that ask for the kick as a Euclidean rhythm (pulses, steps,
\* rotation) and give no step list for any drum
EuclidPlans ==
  {[keys |-> BaseKeys \cup {"tracks", "drums", "euclid"}, bpm |-> 0,
    time_signature |-> <<4, 4>>, length_bars |-> 1, seed |-> 7,
    drums |-> NoDrums, tracks |-> Tracks(1), events |-> <<>>,
    euclid |-> [pulses |-> 3, steps |-> 8, rotation |-> r]] :
     r \in {0, 1}}

Plans == RenderPlans \cup EventPlans \cup InvalidPlans \cup EuclidPlans

Configs ==
  {[keys |-> {"sample_rate", "headroom"} \cup ks, sample_rate |-> SampleRate,
    target_peak_db |-> IF "target_peak_db" \in ks THEN 0 ELSE -99,
    headroom |-> h] :
     ks \in SUBSET {"target_peak_db"}, h \in 0..1}

NoCall == [fn |-> "none"]

\* no file at the path
NoFile == [nchannels |-> 0, sampwidth |-> 0, framerate |-> 0, frames |-> <<>>]

\* no dictionary loaded yet
NoPlan ==
  [keys |-> {}, bpm |-> 0, time_signature |-> <<0, 0>>, length_bars |-> 0,
   seed |-> 0, drums |-> NoDrums, tracks |-> <<>>, events |-> <<>>,
   euclid |-> NoEuclid]

NoConfig == [keys |-> {}, sample_rate |-> 0, target_peak_db |-> 0, headroom |-> 0]

NoSpin == [value |-> 0, result |-> <<>>]

\* the memory of a process that has not started
Fresh ==
  /\ cmd = "none" /\ pc = "idle" /\ error = "none"
  /\ plan = NoPlan /\ config = NoConfig /\ rng = 0
  /\ events = <<>> /\ track_buffers = <<>> /\ mixed = <<>>
  /\ events_sorted = <<>> /\ track_data = <<>> /\ last_tick = 0 /\ idx = 0
  /\ midi_log = <<>> /\ spin = NoSpin

Init ==
  /\ plan_file \in Plans
  /\ config_file \in Configs
  /\ Fresh
  /\ wav_file = NoFile
  /\ midi_file = <<>>
  /\ call = NoCall

(***************************************************************************)
(* cli.py render-wav and runner.run: one action per call of the pipeline.   *)
(***************************************************************************)
\* render_wav(args): _load_plan, then runner.run(plan) in a new process
CmdRenderWav ==
  /\ cmd = "none"
  /\ cmd' = "render-wav"
  /\ pc' = "loaded"
  /\ plan' = plan_file
  /\ rng' \in 0..(RngMod - 1)
  /\ UNCHANGED <<diskVars, error, config, runVars, wav_file, midiVars,
                 midi_file, call>>

\* load_schema, load_config, complete_plan
RunComplete ==
  /\ cmd = "render-wav" /\ pc = "loaded"
  /\ config' = config_file
  /\ plan' = CompletePlan(plan)
  /\ pc' = "completed"
  /\ UNCHANGED <<diskVars, cmd, error, rng, runVars, wav_file, midiVars,
                 midi_file, call>>

\* validate_plan(full_plan, schema)
RunValidate ==
  /\ cmd = "render-wav" /\ pc = "completed"
  /\ IF MissingKeys(plan) # {}
       THEN pc' = "failed" /\ error' = "ValueError"
       ELSE pc' = "validated" /\ error' = error
  /\ UNCHANGED <<diskVars, cmd, plan, config, rng, runVars, wav_file, midiVars,
                 midi_file, call>>

\* generate_progression(full_plan); generate_arp(full_plan)
RunHarmony ==
  /\ cmd = "render-wav" /\ pc = "validated"
  /\ plan' = GenerateHarmony(plan)
  /\ pc' = "harmonised"
  /\ UNCHANGED <<diskVars, cmd, error, config, rng, runVars, wav_file,
                 midiVars, midi_file, call>>

\* events = schedule_events(full_plan)
RunSchedule ==
  /\ cmd = "render-wav" /\ pc = "harmonised"
  /\ events' = ScheduleEvents(plan)
  /\ pc' = "scheduled"
  /\ UNCHANGED <<diskVars, cmd, error, plan, config, rng, track_buffers, mixed,
                 wav_file, midiVars, midi_file, call>>

\* tracks_audio = render_tracks(full_plan, events, config)
RunRender ==
  /\ cmd = "render-wav" /\ pc = "scheduled"
  /\ LET r == RenderTracks(plan, events, config)
     IN  IF r.error # "none"
           THEN pc' = "failed" /\ error' = r.error /\ track_buffers' = track_buffers
           ELSE pc' = "rendered" /\ error' = error /\ track_buffers' = r.buffers
  /\ UNCHANGED <<diskVars, cmd, plan, config, rng, events, mixed, wav_file,
                 midiVars, midi_file, call>>

\* mixed_audio = apply_fx(tracks_audio, full_plan, config)
RunMix ==
  /\ cmd = "render-wav" /\ pc = "rendered"
  /\ LET r == ApplyFx(track_buffers, plan, config)
     IN  IF r.error # "none"
           THEN pc' = "failed" /\ error' = r.error /\ mixed' = mixed
           ELSE pc' = "mixed" /\ error' = error /\ mixed' = r.mixed
  /\ UNCHANGED <<diskVars, cmd, plan, config, rng, events, track_buffers,
                 wav_file, midiVars, midi_file, call>>

\* write_wav(mixed_audio, config["sample_rate"], output_path)
RunWriteWav ==
  /\ cmd = "render-wav" /\ pc = "mixed"
  /\ wav_file' = WriteWav(mixed, config.sample_rate, TRUE, rng)
  /\ rng' = WavFrames(mixed, TRUE, rng).rng
  /\ pc' = "written"
  /\ UNCHANGED <<diskVars, cmd, error, plan, config, runVars, midiVars,
                 midi_file, call>>

\* the file a failed write_wav leaves: wave.open has created it, and closing
\* the handle on the way out writes the header and the frames that got through
PartialWav(frames, sample_rate, nframes) ==
  [nchannels |-> 1, sampwidth |-> 3, framerate |-> sample_rate,
   frames |-> SubSeq(frames, 1, 3 * nframes)]

\* write_wav when the operating system refuses the write (no permission,
\* disk full): at wave.open, where the path is left as it was, or at
\* wf.writeframes, after the file has been created
RunWriteWavFail ==
  /\ cmd = "render-wav" /\ pc = "mixed"
  /\ \/ /\ UNCHANGED <<wav_file, rng>>
     \/ /\ \E nframes \in {0, Len(mixed) \div 2} :
             wav_file' = PartialWav(WavFrames(mixed, TRUE, rng).frames,
                                    config.sample_rate, nframes)
        /\ rng' = WavFrames(mixed, TRUE, rng).rng
  /\ pc' = "failed"
  /\ error' = "OSError"
  /\ UNCHANGED <<diskVars, cmd, plan, config, runVars, midiVars, midi_file,
                 call>>

(***************************************************************************)
(* cli.py export-midi and io_midi.export_midi.                              *)
(***************************************************************************)
\* export_midi_cmd(args): _load_plan, then export_midi(plan, out_path)
CmdExportMidi ==
  /\ cmd = "none"
  /\ cmd' = "export-midi"
  /\ pc' = "midi_start"
  /\ plan' = plan_file
  /\ UNCHANGED <<diskVars, error, config, rng, runVars, wav_file, midiVars,
                 midi_file, call>>

\* plan.get("events", [])
PlanEvents(p) == IF "events" \in p.keys THEN p.events ELSE <<>>

\* plan.get("bpm", 120)
PlanBpm(p) == IF "bpm" \in p.keys THEN p.bpm ELSE DefaultBpm

\* the list plan["events"] once sorted(events, ...) has returned
EventsAfterSorted(evs) == evs

\* export_midi up to the loop: the sorted copy and the two meta events
ExportMidiBegin ==
  /\ cmd = "export-midi" /\ pc = "midi_start"
  /\ events_sorted' = SortedByTime(PlanEvents(plan))
  /\ plan' = [plan EXCEPT !.events = EventsAfterSorted(plan.events)]
  /\ track_data' = TrackPrologue(plan)
  /\ last_tick' = 0
  /\ idx' = 1
  /\ pc' = "midi_loop"
  /\ UNCHANGED <<diskVars, cmd, error, config, rng, runVars, wav_file,
                 midi_log, spin, midi_file, call>>

\* the state of _varlen(value) when it reaches its while loop
EnterVarlen(value) == [value |-> value \div 128, result |-> <<value % 128>>]

\* one iteration of the loop over events_sorted.  A negative delta sends
\* _varlen into a loop that does not end: value >> 7 stays -1.
ExportMidiEvent ==
  /\ cmd = "export-midi" /\ pc = "midi_loop" /\ idx <= Len(events_sorted)
  /\ LET event == events_sorted[idx]
         bpm == PlanBpm(plan)
         start_tick == SecToTicks(event.time, bpm)
         delta == start_tick - last_tick
         note == event.note
         velocity == (event.velocity * 127) \div 1000
         duration_tick == SecToTicks(event.duration, bpm)
         on == [kind |-> "on", delta |-> delta, event |-> event]
         off == [kind |-> "off", delta |-> duration_tick, event |-> event]
     IN  IF delta < 0
           THEN /\ midi_log' = Append(midi_log, on)
                /\ spin' = EnterVarlen(delta)
                /\ pc' = "midi_varlen"
                /\ UNCHANGED <<track_data, last_tick, idx>>
           ELSE IF duration_tick < 0
           THEN /\ midi_log' = midi_log \o <<on, off>>
                /\ track_data' = track_data \o NoteOn(delta, 0, note, velocity)
                /\ spin' = EnterVarlen(duration_tick)
                /\ pc' = "midi_varlen"
                /\ UNCHANGED <<last_tick, idx>>
           ELSE /\ midi_log' = midi_log \o <<on, off>>
                /\ track_data' = track_data \o NoteOn(delta, 0, note, velocity)
                                  \o NoteOff(duration_tick, 0, note, 0)
                /\ last_tick' = start_tick + duration_tick
                /\ idx' = idx + 1
                /\ UNCHANGED <<spin, pc>>
  /\ UNCHANGED <<diskVars, cmd, error, plan, config, rng, runVars, wav_file,
                 events_sorted, midi_file, call>>

\* one iteration of the while loop of a _varlen call that does not return
VarlenSpin ==
  /\ cmd = "export-midi" /\ pc = "midi_varlen"
  /\ spin.value # 0
  /\ Len(spin.result) <= MaxSpin
  /\ spin' = [value |-> spin.value \div 128,
              result |-> <<(spin.value % 128) + 128>> \o spin.result]
  /\ UNCHANGED <<diskVars, cmd, pc, error, plan, config, rng, runVars,
                 wav_file, events_sorted, track_data, last_tick, idx, midi_log,
                 midi_file, call>>

\* the end-of-track meta event and the file
ExportMidiWrite ==
  /\ cmd = "export-midi" /\ pc = "midi_loop" /\ idx > Len(events_sorted)
  /\ track_data' = track_data \o WriteMetaEvent(0, 47, <<>>)
  /\ midi_file' = MidiFileBytes(track_data')
  /\ pc' = "midi_done"
  /\ UNCHANGED <<diskVars, cmd, error, plan, config, rng, runVars, wav_file,
                 events_sorted, last_tick, idx, midi_log, spin, call>>

\* the end of export_midi when the operating system refuses the write: at
\* open, where the path is left as it was, or at one of the f.write calls,
\* after the header chunk or before the last bytes of the track
ExportMidiWriteFail ==
  /\ cmd = "export-midi" /\ pc = "midi_loop" /\ idx > Len(events_sorted)
  /\ track_data' = track_data \o WriteMetaEvent(0, 47, <<>>)
  /\ \/ UNCHANGED midi_file
     \/ \E nbytes \in {14, Len(MidiFileBytes(track_data')) - 4} :
          midi_file' = SubSeq(MidiFileBytes(track_data'), 1, nbytes)
  /\ pc' = "failed"
  /\ error' = "OSError"
  /\ UNCHANGED <<diskVars, cmd, plan, config, rng, runVars, wav_file,
                 events_sorted, last_tick, idx, midi_log, spin, call>>

\* the process ends: its memory goes, the files stay
Exit ==
  /\ pc \in {"written", "failed", "midi_done"}
  /\ cmd' = "none" /\ pc' = "idle" /\ error' = "none"
  /\ plan' = NoPlan /\ config' = NoConfig /\ rng' = 0
  /\ events' = <<>> /\ track_buffers' = <<>> /\ mixed' = <<>>
  /\ events_sorted' = <<>> /\ track_data' = <<>> /\ last_tick' = 0 /\ idx' = 0
  /\ midi_log' = <<>> /\ spin' = NoSpin
  /\ UNCHANGED <<diskVars, wav_file, midi_file, call>>

Next ==
  \/ CmdRenderWav
  \/ RunComplete
  \/ RunValidate
  \/ RunHarmony
  \/ RunSchedule
  \/ RunRender
  \/ RunMix
  \/ RunWriteWav
  \/ RunWriteWavFail
  \/ CmdExportMidi
  \/ ExportMidiBegin
  \/ ExportMidiEvent
  \/ VarlenSpin
  \/ ExportMidiWrite
  \/ ExportMidiWriteFail
  \/ Exit

Spec == Init /\ [][Next]_vars

(***************************************************************************)
(* The render pipeline under a configuration whose target peak is not       *)
(* finite (target_peak_db: .inf in config.yaml).                            *)
(***************************************************************************)
NonFiniteConfigs ==
  {[keys |-> {"sample_rate", "headroom", "target_peak_db"},
    sample_rate |-> SampleRate, target_peak_db |-> PosInf, headroom |-> 0]}

InitNonFinite ==
  /\ plan_file \in RenderPlans
  /\ config_file \in NonFiniteConfigs
  /\ Fresh
  /\ wav_file = NoFile
  /\ midi_file = <<>>
  /\ call = NoCall

NextRender ==
  \/ CmdRenderWav
  \/ RunComplete
  \/ RunValidate
  \/ RunHarmony
  \/ RunSchedule
  \/ RunRender
  \/ RunMix
  \/ RunWriteWav
  \/ RunWriteWavFail
  \/ Exit

SpecNonFinite == InitNonFinite /\ [][NextRender]_vars

(***************************************************************************)
(* The codec functions called directly, on inputs of their whole domain.    *)
(***************************************************************************)
\* small values, the edges of the encoded lengths, and strides through
\* the two-, three- and four-byte ranges below 2^28
VarlenInputs ==
  (0..MaxSmall) \cup {16383, 16384, 2097151, 2097152, 268435455}
  \cup {k * 12345 : k \in 0..MaxSmall} \cup {k * 2000003 : k \in 0..MaxSmall}

\* samples in thousandths, inside and outside [-1, 1]
SampleInputs ==
  {-1500, -1001, -1000, -999, -1, 0, 1, 500, 891, 999, 1000, 1001, 1500}

SampleLists == UNION {[1..n -> SampleInputs] : n \in 0..2}

\* _varlen(v)
CallVarlen ==
  /\ call.fn = "none"
  /\ \E v \in VarlenInputs :
       call' = [fn |-> "_varlen", arg |-> v, out |-> Varlen(v)]
  /\ UNCHANGED <<diskVars, cmd, pc, error, plan, config, rng, runVars,
                 wav_file, midiVars, midi_file>>

\* write_wav(samples, sample_rate, path, dither) with the generator in state s
CallWriteWav ==
  /\ call.fn = "none"
  /\ \E samples \in SampleLists, dither \in BOOLEAN, s \in 0..(RngMod - 1) :
       /\ call' = [fn |-> "write_wav", arg |-> samples, dither |-> dither,
                   rng |-> s]
       /\ wav_file' = WriteWav(samples, SampleRate, dither, s)
  /\ UNCHANGED <<diskVars, cmd, pc, error, plan, config, rng, runVars,
                 midiVars, midi_file>>

\* the integers handed to the packing step: the edges of the bytes and a
\* stride through the whole 24-bit range
Int24Inputs ==
  {-8388607, -8388606, -65537, -65536, -32768, -257, -256, -129, -128, -1,
   0, 1, 127, 128, 255, 256, 32767, 65535, 65536, 8388606, 8388607}
  \cup {k * 64007 : k \in (-MaxSmall)..MaxSmall}

\* struct.pack('<i', int_sample)[0:3] in float_to_int24, and the decoding
\* of those three bytes in analyze_audio
CallPackDecode ==
  /\ call.fn = "none"
  /\ \E n \in Int24Inputs :
       call' = [fn |-> "int24", arg |-> n, out |-> Pack24(n),
                back |-> DecodeInt24(Pack24(n))]
  /\ UNCHANGED <<diskVars, cmd, pc, error, plan, config, rng, runVars,
                 wav_file, midiVars, midi_file>>

\* analyze_audio on the file the write_wav call left
CallAnalyzeAudio ==
  /\ call.fn = "write_wav"
  /\ call' = [fn |-> "analyze_audio", arg |-> call.arg, dither |-> call.dither,
              samples |-> ReadFrames(wav_file.frames),
              peak |-> AnalyzePeak(ReadFrames(wav_file.frames))]
  /\ UNCHANGED <<diskVars, cmd, pc, error, plan, config, rng, runVars,
                 wav_file, midiVars, midi_file>>

\* the envelope settings a voice is given: times in sample periods, the
\* sustain level in thousandths
EnvelopeSettings ==
  [attack : {0, 1}, decay : {0, 1}, sustain : {500, 1000}, release : {0, 2}]

\* adsr_envelope at note-on: t = 0 with the gate open
CallAdsrEnvelope ==
  /\ call.fn = "none"
  /\ \E e \in EnvelopeSettings :
       call' = [fn |-> "adsr_envelope", attack |-> e.attack, decay |-> e.decay,
                sustain |-> e.sustain, release |-> e.release, t |-> 0,
                gate |-> TRUE,
                out |-> AdsrEnvelope(e.attack, e.decay, e.sustain, e.release,
                                     0, TRUE)]
  /\ UNCHANGED <<diskVars, cmd, pc, error, plan, config, rng, runVars,
                 wav_file, midiVars, midi_file>>

\* adsr_envelope for the next sample of the same voice: the gate stays as
\* it is or, at note-off, closes
CallAdsrEnvelopeNext ==
  /\ call.fn = "adsr_envelope"
  /\ call.t < MaxEnvTime
  /\ \E gate \in (IF call.gate THEN BOOLEAN ELSE {FALSE}) :
       call' = [call EXCEPT
                  !.t = call.t + 1,
                  !.gate = gate,
                  !.out = AdsrEnvelope(call.attack, call.decay, call.sustain,
                                       call.release, call.t + 1, gate)]
  /\ UNCHANGED <<diskVars, cmd, pc, error, plan, config, rng, runVars,
                 wav_file, midiVars, midi_file>>

InitCodec ==
  /\ plan_file = NoPlan
  /\ config_file = NoConfig
  /\ Fresh
  /\ wav_file = NoFile
  /\ midi_file = <<>>
  /\ call = NoCall

NextCodec ==
  \/ CallVarlen
  \/ CallWriteWav
  \/ CallPackDecode
  \/ CallAnalyzeAudio
  \/ CallAdsrEnvelope
  \/ CallAdsrEnvelopeNext

SpecCodec == InitCodec /\ [][NextCodec]_vars

(***************************************************************************)
(* Properties.                                                              *)
(***************************************************************************)
\* the run has returned from schedule_events and the list is in use
AfterSchedule ==
  cmd = "render-wav" /\ pc \in {"scheduled", "rendered", "mixed", "written"}

\* C1: rendering the plan again (same plan file, same seed, same config)
\* writes byte for byte the WAV file that the earlier complete render left:
\* the dither does not depend on the ambient random state.
C1_RenderDeterministic ==
  [][(pc = "mixed" /\ pc' = "written" /\ wav_file # NoFile
        /\ Len(wav_file.frames) = 3 * Len(mixed))
       => wav_file' = wav_file]_vars

RECURSIVE DeltaSum(_, _)
\* the sum of the delta-times of the first k messages of a log
DeltaSum(log, k) == IF k = 0 THEN 0 ELSE log[k].delta + DeltaSum(log, k - 1)

\* the absolute tick at which a logged message belongs
MessageTick(m, bpm) ==
  IF m.kind = "on" THEN SecToTicks(m.event.time, bpm)
  ELSE SecToTicks(m.event.time, bpm) + SecToTicks(m.event.duration, bpm)

\* C2: every delta-time export_midi computes for a Note-On or Note-Off is
\* non-negative, and the running sum of the delta-times up to a message is
\* the absolute tick of that message: sec_to_ticks(time) for a Note-On,
\* sec_to_ticks(time) + sec_to_ticks(duration) for a Note-Off.
C2_DeltaTimes ==
  cmd = "export-midi" =>
    \A k \in 1..Len(midi_log) :
      /\ midi_log[k].delta >= 0
      /\ DeltaSum(midi_log, k) = MessageTick(midi_log[k], PlanBpm(plan))

RECURSIVE VlqDecode(_, _)
\* the standard decoder of a variable-length quantity: 7 bits a byte, most
\* significant first, the last byte being the first with bit 7 clear
VlqDecode(bytes, acc) ==
  IF bytes = <<>> THEN -1
  ELSE IF Head(bytes) < 128
         THEN (IF Tail(bytes) = <<>> THEN acc * 128 + Head(bytes) ELSE -1)
         ELSE VlqDecode(Tail(bytes), acc * 128 + (Head(bytes) - 128))

RECURSIVE Pow128(_)
Pow128(n) == IF n = 0 THEN 1 ELSE 128 * Pow128(n - 1)

\* C3: _varlen(v) is the 7-bit groups of v, most significant first, every
\* byte but the last with bit 7 set, the last with bit 7 clear, with no
\* leading 0x80 byte, and the standard decoder gives v back.
C3_VarlenRoundTrip ==
  call.fn = "_varlen" =>
    LET v == call.arg
        b == call.out
        n == Len(b)
    IN  /\ n >= 1
        /\ \A k \in 1..n : b[k] \in 0..255
        /\ \A k \in 1..(n - 1) : b[k] >= 128
        /\ b[n] < 128
        /\ n > 1 => b[1] # 128
        /\ \A k \in 1..n : b[k] % 128 = (v \div Pow128(n - k)) % 128
        /\ v < Pow128(n)
        /\ VlqDecode(b, 0) = v

C3_Witness ==
  /\ call.fn = "_varlen"
  /\ call.arg = 2097151
  /\ call.out = <<255, 255, 127>>

\* the events of the Note-On messages of a log, in the order written
NoteOnEvents(log) ==
  LET on == SelectSeq(log, LAMBDA m : m.kind = "on")
  IN  [k \in 1..Len(on) |-> on[k].event]

\* how many times e occurs in the sequence s
Count(s, e) == Cardinality({k \in 1..Len(s) : s[k] = e})

\* the same elements the same number of times
SameBag(s, t) ==
  /\ Len(s) = Len(t)
  /\ \A k \in 1..Len(s) : Count(s, s[k]) = Count(t, s[k])

\* C4: the exported MIDI file holds exactly one Note-On/Note-Off pair for
\* each event schedule_events produces for the plan.
C4_MidiHoldsScheduledEvents ==
  (cmd = "export-midi" /\ pc = "midi_done") =>
    SameBag(NoteOnEvents(midi_log), ScheduleEvents(CompletePlan(plan_file)))

\* the note of each drum, in track-declaration order
DrumNote == [kick |-> 36, snare |-> 38, hats |-> 42]

\* the pattern of drum d has an entry for step i and the entry is 1
DrumActive(p, d, i) == i < Len(p.drums[d]) /\ p.drums[d][i + 1] = 1

\* (i / 4) * (60 / bpm), in milliseconds
GridTime(i, bpm) == (i * 15000) \div bpm

\* the drum hits of the plan on its grid of length_bars * 16 steps
GridHits(p) ==
  {h \in {"kick", "snare", "hats"} \X (0..(p.length_bars * 16 - 1)) :
     DrumActive(p, h[1], h[2])}

\* C5: schedule_events returns exactly one event for each drum d and step
\* i < length_bars * 16 at which the pattern of d is active, and no other
\* event; that event has time (i / 4) * (60 / bpm) and note 36, 38 or 42.
C5_OneEventPerActiveStep ==
  AfterSchedule =>
    /\ \A d \in {"kick", "snare", "hats"}, i \in 0..(plan.length_bars * 16 - 1) :
         Cardinality({k \in 1..Len(events) :
                        /\ events[k].note = DrumNote[d]
                        /\ events[k].time = GridTime(i, plan.bpm)})
           = IF DrumActive(plan, d, i) THEN 1 ELSE 0
    /\ Len(events) = Cardinality(GridHits(plan))

C5_Witness ==
  /\ cmd = "render-wav" /\ pc = "scheduled"
  /\ Len(events) = 4
  /\ DrumActive(plan, "kick", 0) /\ DrumActive(plan, "snare", 0)
  /\ DrumActive(plan, "hats", 2) /\ DrumActive(plan, "snare", 8)
  /\ plan.bpm = 100

\* the position of a note in track-declaration order
DrumRank(note) == IF note = 36 THEN 1 ELSE IF note = 38 THEN 2 ELSE 3

\* sorted by time, and by track-declaration order where the times are equal
TimeOrdered(evs) ==
  \A j, k \in 1..Len(evs) :
    j < k => \/ evs[j].time < evs[k].time
             \/ /\ evs[j].time = evs[k].time
                /\ DrumRank(evs[j].note) < DrumRank(evs[k].note)

\* C6: the list schedule_events returns is sorted by non-decreasing time,
\* events of equal time in the order kick, snare, hats, and the later steps
\* leave it as it was returned: render_tracks and apply_fx keep the list of
\* the run, export_midi keeps the list of the plan it is given.
C6_EventsStaySorted ==
  /\ AfterSchedule => (TimeOrdered(events) /\ events = ScheduleEvents(plan))
  /\ cmd = "export-midi" => plan.events = plan_file.events

C6_Witness ==
  /\ cmd = "render-wav" /\ pc = "written"
  /\ Len(events) >= 3
  /\ \E j, k \in 1..Len(events) : j < k /\ events[j].time = events[k].time
  /\ \E j, k \in 1..Len(events) : events[j].time < events[k].time

\* C7: when the length of a drum pattern is not length_bars * 16,
\* schedule_events reports an error and returns no event list.
C7_MismatchReported ==
  AfterSchedule =>
    \A d \in {"kick", "snare", "hats"} :
      plan.drums[d] # <<>> => Len(plan.drums[d]) = plan.length_bars * 16

\* every sample of the buffer is zero
Silent(buffer) == \A j \in 1..Len(buffer) : buffer[j] = 0

Headroom(cfg) == IF "headroom" \in cfg.keys THEN cfg.headroom ELSE 0

\* target_peak_db of the configuration, in dB
TargetDb(cfg) ==
  IF "target_peak_db" \in cfg.keys THEN cfg.target_peak_db ELSE DefaultTargetDb

\* C9: when the track buffers are not all silent, the peak of the master
\* buffer is the linear target 10^(target_peak_db / 20) reduced by the
\* configured headroom, and no sample exceeds it in magnitude.
C9_PeakAtTargetLessHeadroom ==
  (cmd = "render-wav" /\ pc = "mixed"
     /\ \E k \in 1..Len(track_buffers) : ~Silent(track_buffers[k])) =>
    LET limit == DbToLinear(TargetDb(config) - Headroom(config))
    IN  /\ Peak(mixed) = limit
        /\ \A j \in 1..Len(mixed) : Abs(mixed[j]) <= limit

\* the signed integer that three little-endian two's-complement bytes hold
Signed24(b) ==
  LET u == b[1] + 256 * b[2] + 65536 * b[3]
  IN  IF u >= 8388608 THEN u - 16777216 ELSE u

\* int(x * 0x7FFFFF) for a sample x in thousandths clamped to [-1, 1]
Quantized(m) ==
  LET c == IF m > 1000 THEN 1000 ELSE IF m < -1000 THEN -1000 ELSE m
      a == Abs(c)
  IN  Sign(c) * (a * 8388 + ((a * 607) \div 1000))

\* C10: write_wav emits one 3-byte little-endian two's-complement sample
\* for each input value, in input order, mono, sample width 3; the encoded
\* integer lies in [-8388607, 8388607]; a value outside [-1, 1] encodes as
\* the nearest bound; without dither each value encodes as its quantized
\* value and 0.0 as 00 00 00 (dither moves a value by at most one step).
C10_WavSamples ==
  call.fn = "write_wav" =>
    LET samples == call.arg
        frames == wav_file.frames
        Bytes(j) == SubSeq(frames, 3 * j - 2, 3 * j)
    IN  /\ Len(frames) = 3 * Len(samples)
        /\ wav_file.nchannels = 1
        /\ wav_file.sampwidth = 3
        /\ \A j \in 1..Len(samples) :
             /\ \A i \in 1..3 : Bytes(j)[i] \in 0..255
             /\ Signed24(Bytes(j)) \in (-8388607)..8388607
             /\ samples[j] > 1000 => Signed24(Bytes(j)) = 8388607
             /\ samples[j] < -1000 => Signed24(Bytes(j)) = -8388607
             /\ Abs(Signed24(Bytes(j)) - Quantized(samples[j])) <= 1
             /\ ~call.dither => Signed24(Bytes(j)) = Quantized(samples[j])
             /\ (~call.dither /\ samples[j] = 0) => Bytes(j) = <<0, 0, 0>>

C10_Witness ==
  /\ call.fn = "write_wav"
  /\ call.arg = <<1500, -1001>>
  /\ ~call.dither
  /\ wav_file.frames = <<255, 255, 127, 1, 0, 128>>

\* C11: the three bytes float_to_int24 packs for an integer n of
\* [-8388607, 8388607] decode, with the decoder of analyze_audio, to n
\* again; so a file written without dither decodes to the quantized
\* samples of the buffer, and its peak is the peak of the quantized buffer.
C11_Int24RoundTrip ==
  /\ call.fn = "int24" =>
       /\ call.arg \in (-FullScale)..FullScale
       /\ Len(call.out) = 3
       /\ \A i \in 1..3 : call.out[i] \in 0..255
       /\ call.back = call.arg
  /\ (call.fn = "analyze_audio" /\ ~call.dither) =>
       /\ Len(call.samples) = Len(call.arg)
       /\ \A j \in 1..Len(call.arg) : call.samples[j] = Quantized(call.arg[j])
       /\ \A j \in 1..Len(call.arg) : Abs(Quantized(call.arg[j])) <= call.peak
       /\ call.arg # <<>> =>
            \E j \in 1..Len(call.arg) : Abs(Quantized(call.arg[j])) = call.peak
       /\ call.arg = <<>> => call.peak = 0

C11_Witness ==
  /\ call.fn = "analyze_audio"
  /\ ~call.dither
  /\ call.arg = <<-1500, 500>>
  /\ call.samples = <<-8388607, 4194303>>
  /\ call.peak = 8388607

\* C12: when write_wav or export_midi returns with a write error, no
\* partial file is at the target path: the path is empty, or it still holds
\* the complete file of an earlier write that succeeded.
C12_NoPartialFile ==
  /\ (cmd = "render-wav" /\ error = "OSError") =>
       (wav_file = NoFile \/ Len(wav_file.frames) = 3 * Len(mixed))
  /\ (cmd = "export-midi" /\ error = "OSError") =>
       (midi_file = <<>> \/ midi_file = MidiFileBytes(track_data))

\* the sample is infinite or not a number
NonFinite(x) == x \in {PosInf, NegInf, NaN}

\* some sample of the buffer is infinite or not a number
HasNonFinite(buffer) == \E j \in 1..Len(buffer) : NonFinite(buffer[j])

\* C13: when a track buffer or the master buffer holds a NaN or an infinite
\* sample, the render aborts with a numeric-integrity error: write_wav is
\* not invoked and no WAV file is written from that buffer.
C13_NonFiniteAborts ==
  (cmd = "render-wav"
     /\ (HasNonFinite(mixed)
           \/ \E k \in 1..Len(track_buffers) : HasNonFinite(track_buffers[k]))) =>
    /\ pc # "written"
    /\ pc = "failed" => error = "NumericIntegrityError"

\* the instrument types the synthesiser is written for
KnownInstruments == {"pad", "lead", "bass", "drums", "fx"}

PowerOfTwo(d) == d \in {1, 2, 4, 8, 16, 32, 64}

\* the plan is invalid: once completed it lacks a required field, or its
\* time-signature denominator is no power of two, or one of its tracks has
\* an unknown instrument type
InvalidPlan(p) ==
  LET c == CompletePlan(p)
  IN  \/ MissingKeys(c) # {}
      \/ ~PowerOfTwo(c.time_signature[2])
      \/ \E k \in 1..Len(c.tracks) :
           c.tracks[k].instrument_type \notin KnownInstruments

\* C14: run ends an invalid plan with a validation error before it
\* schedules, renders, mixes or writes anything, and no output file is
\* produced for it.
C14_InvalidPlanRejected ==
  InvalidPlan(plan_file) =>
    /\ wav_file = NoFile
    /\ cmd = "render-wav" =>
         /\ pc \in {"loaded", "completed", "failed"}
         /\ pc = "failed" => error = "ValueError"

RECURSIVE ReadVlq(_, _, _)
\* the variable-length quantity that starts at byte i, and where it ends
ReadVlq(b, i, acc) ==
  IF i > Len(b) THEN [value |-> -1, next |-> i]
  ELSE IF b[i] < 128 THEN [value |-> (acc * 128) + b[i], next |-> i + 1]
  ELSE ReadVlq(b, i + 1, (acc * 128) + (b[i] - 128))

RECURSIVE ParseTrack(_, _)
\* the events of a track chunk from byte i on, as a reader of a Standard
\* MIDI File takes them apart: delta-time, then a meta event (0xFF, type,
\* length, data) or a channel message of two data bytes
ParseTrack(b, i) ==
  IF i > Len(b) THEN <<>>
  ELSE LET d == ReadVlq(b, i, 0)
       IN  IF d.value < 0 \/ d.next + 1 > Len(b)
             THEN <<[delta |-> d.value, kind |-> "broken", type |-> 0, data |-> 0]>>
           ELSE IF b[d.next] = 255
             THEN LET l == ReadVlq(b, d.next + 2, 0)
                  IN  IF l.value < 0
                        THEN <<[delta |-> d.value, kind |-> "broken", type |-> 0,
                                data |-> 0]>>
                      ELSE <<[delta |-> d.value, kind |-> "meta",
                              type |-> b[d.next + 1], data |-> l.value]>>
                           \o ParseTrack(b, l.next + l.value)
           ELSE <<[delta |-> d.value,
                   kind |-> IF b[d.next] \div 16 = 9 THEN "on"
                            ELSE IF b[d.next] \div 16 = 8 THEN "off" ELSE "other",
                   type |-> b[d.next], data |-> b[d.next + 1]]>>
                \o ParseTrack(b, d.next + 3)

\* the bytes of the file after the header chunk and the track chunk header
TrackOf(file) == SubSeq(file, 23, Len(file))

\* C15: in the track of every file export_midi completes, the tempo meta
\* event (0x51) comes first and the time-signature meta event (0x58)
\* second, both with delta-time 0 and before every note message; the
\* end-of-track meta event (0x2F, length 0) occurs once, as the last event;
\* and the Note-On of each event comes before its own Note-Off.
C15_TrackEventOrder ==
  (cmd = "export-midi" /\ pc = "midi_done") =>
    LET ev == ParseTrack(TrackOf(midi_file), 1)
        n == Len(ev)
    IN  /\ n = 3 + (2 * Len(events_sorted))
        /\ ev[1] = [delta |-> 0, kind |-> "meta", type |-> 81, data |-> 3]
        /\ ev[2] = [delta |-> 0, kind |-> "meta", type |-> 88, data |-> 4]
        /\ ev[n].kind = "meta" /\ ev[n].type = 47 /\ ev[n].data = 0
        /\ \A k \in 1..(n - 1) : ~(ev[k].kind = "meta" /\ ev[k].type = 47)
        /\ \A k \in 3..(n - 1) : ev[k].kind \in {"on", "off"}
        /\ \A j \in 1..Len(events_sorted) :
             /\ ev[(2 * j) + 1].kind = "on"
             /\ ev[(2 * j) + 1].data = events_sorted[j].note
             /\ ev[(2 * j) + 2].kind = "off"
             /\ ev[(2 * j) + 2].data = events_sorted[j].note

C15_Witness ==
  /\ cmd = "export-midi" /\ pc = "midi_done"
  /\ Len(events_sorted) = 2
  /\ Len(ParseTrack(TrackOf(midi_file), 1)) = 7

\* the number of bytes of the variable-length quantity of v
VlqLen(v) ==
  IF v < 128 THEN 1 ELSE IF v < 16384 THEN 2 ELSE IF v < 2097152 THEN 3 ELSE 4

RECURSIVE LogBytes(_)
\* the bytes the logged note messages take: delta-time and three bytes each
LogBytes(log) ==
  IF log = <<>> THEN 0
  ELSE VlqLen(Head(log).delta) + 3 + LogBytes(Tail(log))

\* the number a big-endian 32-bit field holds
U32(b) == (((((b[1] * 256) + b[2]) * 256) + b[3]) * 256) + b[4]

\* C16: every file export_midi completes starts with the 14 bytes 'MThd',
\* length 6, format 1, one track, division 480, followed by one 'MTrk'
\* chunk that runs to the end of the file and whose 32-bit length field is
\* the number of bytes after it: the two meta events (7 and 8 bytes), the
\* note messages with their delta-times, and the end-of-track event (4).
C16_HeaderAndLength ==
  (cmd = "export-midi" /\ pc = "midi_done") =>
    /\ Len(midi_file) >= 22
    /\ SubSeq(midi_file, 1, 14)
         = <<77, 84, 104, 100, 0, 0, 0, 6, 0, 1, 0, 1, 1, 224>>
    /\ SubSeq(midi_file, 15, 18) = <<77, 84, 114, 107>>
    /\ U32(SubSeq(midi_file, 19, 22)) = Len(midi_file) - 22
    /\ U32(SubSeq(midi_file, 19, 22)) = 7 + 8 + LogBytes(midi_log) + 4

C16_Witness ==
  /\ cmd = "export-midi" /\ pc = "midi_done"
  /\ Len(events_sorted) = 1
  /\ SubSeq(midi_file, 19, 22) = <<0, 0, 0, 28>>
  /\ Len(midi_file) = 50

RECURSIVE SumUpTo(_, _, _)
\* sample j of the first k buffers added up in list order
SumUpTo(bufs, k, j) ==
  IF k = 0 THEN 0 ELSE SumUpTo(bufs, k - 1, j) + bufs[k][j]

\* one finished buffer for each track the plan declares, each as long as
\* the schedule needs
AllTracksRendered(bufs, p, evs, cfg) ==
  /\ Len(bufs) = Len(p.tracks)
  /\ \A k \in 1..Len(bufs) : Len(bufs[k]) = NumSamples(evs, cfg.sample_rate)

\* the sums of the track samples in declaration order, brought to the
\* target peak
OrderedMix(bufs, cfg) ==
  LET sums == [j \in 1..Len(bufs[1]) |-> SumUpTo(bufs, Len(bufs), j)]
      peak == IF Peak(sums) = 0 THEN 1000 ELSE Peak(sums)
  IN  [j \in 1..Len(sums) |-> QDiv(sums[j] * DbToLinear(TargetDb(cfg)), peak)]

C18_ReleaseFollowsRamp ==
  [][(call.fn = "adsr_envelope" /\ call'.fn = "adsr_envelope"
        /\ call.gate /\ ~call'.gate
        /\ call.release > 0 /\ call.out > 0)
       => call'.out > 0]_vars

\* the number of events of the list that sound at sample j (from 0): those
\* whose span of duration_samples from start_sample covers j
ActiveVoices(evs, j, sample_rate) ==
  Cardinality({k \in 1..Len(evs) :
                 /\ ToSamples(evs[k].time, sample_rate) <= j
                 /\ j < ToSamples(evs[k].time, sample_rate)
                          + ToSamples(evs[k].duration, sample_rate)})

\* C19: at no sample of a rendered track do more voices sound than the
\* voice limit of the quality preset allows: a note-on that arrives at the
\* limit releases the oldest voice early, and the new note is rendered.
C19_VoiceLimit ==
  (cmd = "render-wav" /\ pc \in {"rendered", "mixed", "written"}) =>
    \A k \in 1..Len(track_buffers) :
      \A j \in 0..(Len(track_buffers[k]) - 1) :
        ActiveVoices(TrackEvents(k, events), j, config.sample_rate) <= VoiceLimit

\* step i of the Euclidean pattern of e is active: the pulses spread as
\* evenly as the steps allow, shifted cyclically by the rotation
EuclidActive(e, i) ==
  (((i + e.steps - (e.rotation % e.steps)) % e.steps) * e.pulses) % e.steps
    < e.pulses

\* C20: for a plan that asks for a Euclidean rhythm (pulses, steps,
\* rotation) with pulses <= steps, the pattern that is scheduled has steps
\* entries of which exactly pulses are active, the rotation shifting them
\* cyclically; (3, 8, 0) gives [1,0,0,1,0,0,1,0].  The pattern is read off
\* the kick events of the schedule.
C20_EuclidPattern ==
  (AfterSchedule /\ "euclid" \in plan.keys) =>
    LET e == plan.euclid
        Hit(i) == \E k \in 1..Len(events) :
                    /\ events[k].note = 36
                    /\ events[k].time = GridTime(i, plan.bpm)
    IN  /\ \A i \in 0..(e.steps - 1) : Hit(i) <=> EuclidActive(e, i)
        /\ Cardinality({i \in 0..(e.steps - 1) : Hit(i)}) = e.pulses

RECURSIVE OwnedEvents(_, _, _, _)
\* the events from index i on that the assignment gives to track t
OwnedEvents(evs, owner, t, i) ==
  IF i > Len(evs) THEN <<>>
  ELSE (IF owner[i] = t THEN <<evs[i]>> ELSE <<>>)
       \o OwnedEvents(evs, owner, t, i + 1)

\* the normalised buffer of a track that plays the events it owns and no
\* others, as long as the whole schedule needs
OwnedBuffer(owned, evs, sample_rate) ==
  LET buffer == RenderEvents([j \in 1..NumSamples(evs, sample_rate) |-> 0],
                             owned, sample_rate)
      max_amp == IF Peak(buffer) = 0 THEN 1000 ELSE Peak(buffer)
  IN  [j \in 1..Len(buffer) |-> QDiv(buffer[j] * 1000, max_amp)]

\* C21: render_tracks adds each scheduled event to the buffer of the one
\* track that owns it and leaves the buffers of the other tracks as they
\* are: the buffers are those of some assignment of each event to one
\* track, so that the mix counts an event once.
C21_EventInOwningTrackOnly ==
  (cmd = "render-wav" /\ pc \in {"rendered", "mixed", "written"}
     /\ Len(track_buffers) >= 2) =>
    \E owner \in [1..Len(events) -> 1..Len(track_buffers)] :
      \A t \in 1..Len(track_buffers) :
        track_buffers[t]
          = OwnedBuffer(OwnedEvents(events, owner, t, 1), events,
                        config.sample_rate)

\* the latest end (time + duration) of the events in milliseconds, 0 for none
LatestEnd(evs) ==
  IF evs = <<>> THEN 0
  ELSE CHOOSE m \in {evs[k].time + evs[k].duration : k \in 1..Len(evs)} :
         \A k \in 1..Len(evs) : evs[k].time + evs[k].duration <= m

\* int(max(time + duration) * sample_rate) + 1
ExpectedLength(evs, sample_rate) ==
  (LatestEnd(evs) * sample_rate) \div 1000 + 1

\* C22: every buffer render_tracks returns has the length
\* int(max over events of (time + duration) * sample_rate) + 1, which is 1
\* when there are no events; the samples of every event, from its start
\* sample for its duration in samples, have their index inside the buffer;
\* and the master buffer of apply_fx has that same length.
C22_BufferLengths ==
  (cmd = "render-wav" /\ pc \in {"rendered", "mixed", "written"}) =>
    LET n == ExpectedLength(events, config.sample_rate)
    IN  /\ \A t \in 1..Len(track_buffers) : Len(track_buffers[t]) = n
        /\ \A k \in 1..Len(events) :
             LET start_sample == (events[k].time * config.sample_rate) \div 1000
                 duration_samples ==
                   (events[k].duration * config.sample_rate) \div 1000
             IN  \A i \in 0..(duration_samples - 1) :
                   0 <= start_sample + i /\ start_sample + i < n
        /\ pc \in {"mixed", "written"} => Len(mixed) = n

\* two tracks were rendered from events of which one ends with the buffer
\* and one before it, and the buffers were mixed
C22_Witness ==
  /\ cmd = "render-wav" /\ pc = "mixed"
  /\ Len(track_buffers) = 2
  /\ Len(events) >= 2
  /\ Len(mixed) > 1
  /\ \E k \in 1..Len(events) :
       events[k].time + events[k].duration < LatestEnd(events)
  /\ ~Silent(mixed)

\* C23: export_midi comes to its file write and returns for every plan whose
\* events have non-negative times and durations, simultaneous and overlapping
\* notes included: _varlen is only ever called with a value on which its
\* while loop ends, so export_midi is never inside a _varlen loop whose
\* value stays negative.
C23_VarlenLoopEnds ==
  (cmd = "export-midi"
     /\ \A k \in 1..Len(events_sorted) :
          events_sorted[k].time >= 0 /\ events_sorted[k].duration >= 0) =>
    (pc = "midi_varlen" => spin.value >= 0)

=============================================================================
